---- MODULE Spec2Model ----
(***************************************************************************)
(* Chunk store, LOD state machine and streaming policy of Voxel Fortress.  *)
(*                                                                         *)
(* Lengths are integers in metres; a chunk is CHUNK_SIZE voxels of 0.25 m, *)
(* i.e. 8 m.  Radii are kept in tenths of a chunk (2.5 -> 25), and every   *)
(* `sqrt(s) / unit <= r` of the source is compared on the squares, which   *)
(* is exact for the integer-valued f32 operands that occur here.           *)
(***************************************************************************)
EXTENDS Integers, Sequences, FiniteSets, TLC

VARIABLES
    game_state,      \* GameState: "Loading" | "Playing"
    task_slot,       \* InitialChunkLoadTask.0 : Option<Task<..>>
    worker,          \* the background task: "running" | "finished"
    chunk_manager,   \* Option of the ChunkManager resource
    camera_pos,      \* Transform.translation of the camera, metres
    camera_forward,  \* Transform.forward() of the camera, not normalised
    world_entities,  \* chunk entities spawned and not despawned
    steps,           \* systems run on the published store so far
    last,            \* the operation that produced this state
    before,          \* loaded_chunks as the last store operation found them
    tick,            \* what the last streaming tick listed and generated
    fault,           \* Option of the system that stopped the app
    probe            \* a terrain function's input and, once applied, its output

vars == <<game_state, task_slot, worker, chunk_manager, camera_pos, camera_forward,
          world_entities, steps, last, before, tick, fault, probe>>

----------------------------------------------------------------------------
(* Program constants *)

CHUNK_SIZE == 32
VOXELS_PER_METER == 4
ACTIVE_RADIUS == 25
LOD_RADIUS == 50
UNLOAD_RADIUS == 80
INITIAL_RADIUS == 5
MANAGER_RADIUS == 5
max_chunks_per_frame == 5
WORLDGEN_LEVELS == 3
WORLDGEN_SEED == 42
SPAWN_CLEARANCE == 3
water_level == 0
cave_threshold == 6

(* Bounds of the model *)

MaxSteps == 3
MaxKinds == 3
MaxFrames == 4

\* Where the accumulated camera input may put the observer: translation and
\* forward.
CamPoses ==
    {[translation |-> <<28, 4, 4>>, forward |-> <<1, 0, 0>>],
     [translation |-> <<32, 4, 4>>, forward |-> <<0, -1, 0>>],
     [translation |-> <<-20, -20, 4>>, forward |-> <<0, 0, 1>>]}

----------------------------------------------------------------------------
(* Option<T> *)

None == <<>>
Some(x) == <<x>>

(* Geometry *)

ChunkMeters == CHUNK_SIZE \div VOXELS_PER_METER

SumSq(a, b) ==
    (a[1] - b[1]) * (a[1] - b[1]) + (a[2] - b[2]) * (a[2] - b[2])
        + (a[3] - b[3]) * (a[3] - b[3])

\* Mutant: the comparison made strict (< for <=).
WithinRadius_Strict(sumsq, unit, radius) ==
    100 * sumsq < (unit * radius) * (unit * radius)

\* sqrt(sumsq) / unit <= radius, radius in tenths
WithinRadius(sumsq, unit, radius) == 100 * sumsq <= (unit * radius) * (unit * radius)

CameraChunk(p) == <<p[1] \div ChunkMeters, p[2] \div ChunkMeters, p[3] \div ChunkMeters>>

ChunkCenter(pos) ==
    <<pos[1] * ChunkMeters + ChunkMeters \div 2,
      pos[2] * ChunkMeters + ChunkMeters \div 2,
      pos[3] * ChunkMeters + ChunkMeters \div 2>>

Cube(center, r) ==
    {<<center[1] + dx, center[2] + dy, center[3] + dz>> :
        dx \in -r..r, dy \in -r..r, dz \in -r..r}

----------------------------------------------------------------------------
(* Generation *)

WorldGenNew(levels, chunk_size, seed) ==
    [levels |-> levels, chunk_size |-> chunk_size, seed |-> seed]

WorldGenResource == WorldGenNew(WORLDGEN_LEVELS, CHUNK_SIZE, WORLDGEN_SEED)

\* The grid is a function of the generator's parameters and the coordinate.
FromWorldgen(worldgen, chunk_pos) == [worldgen |-> worldgen, chunk_pos |-> chunk_pos]

ToLodMesh(chunk) == [lod_of |-> chunk]

ManagedChunk(pos, state, chunk, lod_mesh, entity) ==
    [pos |-> pos, state |-> state, chunk |-> chunk, lod_mesh |-> lod_mesh,
     entity |-> entity]

ChunkManagerNew(radius) == [loaded_chunks |-> <<>>, radius |-> radius]

\* The map the background task builds.
InitialChunks ==
    [pos \in Cube(<<0, 0, 0>>, INITIAL_RADIUS) |->
        ManagedChunk(pos, "Active", Some(FromWorldgen(WorldGenResource, pos)), None, None)]

\* ChunkManager::load_chunks_around: every coordinate of the cube that has no
\* entry gets an Active one with its grid.
LoadChunksAround(chunks, center, radius, worldgen) ==
    [pos \in DOMAIN chunks \cup Cube(center, radius) |->
        IF pos \in DOMAIN chunks
        THEN chunks[pos]
        ELSE ManagedChunk(pos, "Active", Some(FromWorldgen(worldgen, pos)), None, None)]

----------------------------------------------------------------------------
(* LOD state machine *)

LodBand(dist2) ==
    IF WithinRadius(dist2, ChunkMeters, ACTIVE_RADIUS) THEN "active"
    ELSE IF WithinRadius(dist2, ChunkMeters, LOD_RADIUS) THEN "lod"
    ELSE IF WithinRadius(dist2, ChunkMeters, UNLOAD_RADIUS) THEN "unloaded"
    ELSE "beyond"

\* Mutant: an Unloaded entry is promoted one state at a time, to LOD first.
ToActive_Stepwise(pos, mc) ==
    IF mc.state # "Active"
    THEN IF mc.state = "LOD"
         THEN [mc EXCEPT
                 !.chunk = Some(FromWorldgen(
                     WorldGenNew(WORLDGEN_LEVELS, CHUNK_SIZE, WORLDGEN_SEED), pos)),
                 !.lod_mesh = None,
                 !.state = "Active"]
         ELSE [mc EXCEPT
                 !.lod_mesh = Some(ToLodMesh(FromWorldgen(
                     WorldGenNew(WORLDGEN_LEVELS, CHUNK_SIZE, WORLDGEN_SEED), pos))),
                 !.state = "LOD"]
    ELSE mc

ToActive(pos, mc) ==
    IF mc.state # "Active"
    THEN IF mc.state = "LOD"
         THEN [mc EXCEPT
                 !.chunk = Some(FromWorldgen(
                     WorldGenNew(WORLDGEN_LEVELS, CHUNK_SIZE, WORLDGEN_SEED), pos)),
                 !.lod_mesh = None,
                 !.state = "Active"]
         ELSE [mc EXCEPT !.state = "Active"]
    ELSE mc

\* Mutant: Active -> LOD derives the mesh and forgets to free the grid.
ToLod_KeepGrid(pos, mc) ==
    IF mc.state # "LOD"
    THEN IF mc.state = "Active"
         THEN IF mc.chunk # None
              THEN [mc EXCEPT !.lod_mesh = Some(ToLodMesh(mc.chunk[1])), !.state = "LOD"]
              ELSE [mc EXCEPT !.state = "LOD"]
         ELSE [mc EXCEPT
                 !.lod_mesh = Some(ToLodMesh(FromWorldgen(
                     WorldGenNew(WORLDGEN_LEVELS, CHUNK_SIZE, WORLDGEN_SEED), pos))),
                 !.state = "LOD"]
    ELSE mc

ToLod(pos, mc) ==
    IF mc.state # "LOD"
    THEN IF mc.state = "Active"
         THEN IF mc.chunk # None
              THEN [mc EXCEPT
                      !.lod_mesh = Some(ToLodMesh(mc.chunk[1])),
                      !.chunk = None,
                      !.state = "LOD"]
              ELSE [mc EXCEPT !.state = "LOD"]
         ELSE [mc EXCEPT
                 !.lod_mesh = Some(ToLodMesh(FromWorldgen(
                     WorldGenNew(WORLDGEN_LEVELS, CHUNK_SIZE, WORLDGEN_SEED), pos))),
                 !.state = "LOD"]
    ELSE mc

\* Mutant: the Unloaded transition frees the grid and keeps the LOD mesh.
ToUnloaded_KeepMesh(pos, mc) ==
    IF mc.state # "Unloaded"
    THEN [mc EXCEPT !.chunk = None, !.state = "Unloaded"]
    ELSE mc

ToUnloaded(pos, mc) ==
    IF mc.state # "Unloaded"
    THEN [mc EXCEPT !.chunk = None, !.lod_mesh = None, !.state = "Unloaded"]
    ELSE mc

\* Mutant: beyond the unload radius the entry is unloaded as well.
LodTransition_UnloadBeyond(pos, mc, cam) ==
    LET band == LodBand(SumSq(cam, ChunkCenter(pos)))
    IN  CASE band = "active" -> ToActive(pos, mc)
          [] band = "lod" -> ToLod(pos, mc)
          [] OTHER -> ToUnloaded(pos, mc)

LodTransition(pos, mc, cam) ==
    LET band == LodBand(SumSq(cam, ChunkCenter(pos)))
    IN  CASE band = "active" -> ToActive(pos, mc)
          [] band = "lod" -> ToLod(pos, mc)
          [] band = "unloaded" -> ToUnloaded(pos, mc)
          [] OTHER -> mc

----------------------------------------------------------------------------
(* Streaming policy: manage_chunk_loading *)

Dot(a, b) == a[1] * b[1] + a[2] * b[2] + a[3] * b[3]

\* look_dir.c > 0.3 -> 1, look_dir.c < -0.3 -> -1, else 0, for look_dir = f / |f|
LookDelta(c, f) ==
    IF c > 0 /\ 100 * c * c > 9 * Dot(f, f) THEN 1
    ELSE IF c < 0 /\ 100 * c * c > 9 * Dot(f, f) THEN -1
    ELSE 0

ChunkDist2(pos, cc) == SumSq(pos, cc)

\* Mutant: the unload distance leaves out the vertical offset.
TooFar_Horizontal(pos, cc) ==
    ~WithinRadius((pos[1] - cc[1]) * (pos[1] - cc[1]) + (pos[3] - cc[3]) * (pos[3] - cc[3]),
                  1, UNLOAD_RADIUS)

TooFar(pos, cc) == ~WithinRadius(ChunkDist2(pos, cc), 1, UNLOAD_RADIUS)

\* loaded_chunks after the removal loop
Evict(chunks, cc) ==
    LET keep == {pos \in DOMAIN chunks : ~TooFar(pos, cc)}
    IN  [pos \in keep |-> chunks[pos]]

\* r / 2 and -r / 2 of the source, for r >= 0
HalfRadius(r) == r \div 2

\* The k-th push candidate of the look-direction loops, k from 0:
\* d outermost, then dy, then offset, then left before right.
PriorityCandidate(k, cc, ldx, ldz, r) ==
    LET h == HalfRadius(r)
        d == (k \div ((2 * h + 1) * 6)) + 1
        dy == ((k \div 6) % (2 * h + 1)) - h
        offset == (k \div 2) % 3
    IN  IF k % 2 = 0
        THEN <<cc[1] + ldx * d - ldz * offset, cc[2] + dy, cc[3] + ldz * d + ldx * offset>>
        ELSE <<cc[1] + ldx * d + ldz * offset, cc[2] + dy, cc[3] + ldz * d - ldx * offset>>

\* Mutant: the look-direction loops push every candidate, present or missing.
PriorityChunks_Unfiltered(keys, cc, ldx, ldz, r) ==
    LET n == r * (2 * HalfRadius(r) + 1) * 6
    IN  [i \in 1..n |-> PriorityCandidate(i - 1, cc, ldx, ldz, r)]

PriorityChunks(keys, cc, ldx, ldz, r) ==
    LET n == r * (2 * HalfRadius(r) + 1) * 6
        candidates == [i \in 1..n |-> PriorityCandidate(i - 1, cc, ldx, ldz, r)]
        Missing(pos) == pos \notin keys
    IN  SelectSeq(candidates, Missing)

\* The k-th coordinate of the in-range loops, k from 0: dx, then dy, then dz.
RangeCandidate(k, cc, r) ==
    LET h == HalfRadius(r)
        w == 2 * r + 1
    IN  <<cc[1] + (k \div ((2 * h + 1) * w)) - r,
          cc[2] + ((k \div w) % (2 * h + 1)) - h,
          cc[3] + (k % w) - r>>

InStreamingRadius(pos, cc, r) == WithinRadius(ChunkDist2(pos, cc), 1, 10 * r)

\* Mutant: the in-range loops list loaded coordinates too.
ChunksToLoad_Unfiltered(keys, priority, cc, r) ==
    LET n == (2 * r + 1) * (2 * HalfRadius(r) + 1) * (2 * r + 1)
        candidates == [i \in 1..n |-> RangeCandidate(i - 1, cc, r)]
        listed == {priority[i] : i \in 1..Len(priority)}
        Wanted(pos) ==
            /\ pos \notin listed
            /\ InStreamingRadius(pos, cc, r)
    IN  SelectSeq(candidates, Wanted)

ChunksToLoad(keys, priority, cc, r) ==
    LET n == (2 * r + 1) * (2 * HalfRadius(r) + 1) * (2 * r + 1)
        candidates == [i \in 1..n |-> RangeCandidate(i - 1, cc, r)]
        listed == {priority[i] : i \in 1..Len(priority)}
        Wanted(pos) ==
            /\ ~(pos \in listed \/ pos \in keys)
            /\ InStreamingRadius(pos, cc, r)
    IN  SelectSeq(candidates, Wanted)

\* Mutant: the budget test off by one (> for >=).
BudgetSpent_OffByOne(chunks_loaded) == chunks_loaded > max_chunks_per_frame

BudgetSpent(chunks_loaded) == chunks_loaded >= max_chunks_per_frame

\* How many entries of `list` one load loop takes, entered with chunks_loaded.
RECURSIVE LoadCount(_, _, _)
LoadCount(list, i, chunks_loaded) ==
    IF i > Len(list) \/ BudgetSpent(chunks_loaded) THEN 0
    ELSE 1 + LoadCount(list, i + 1, chunks_loaded + 1)

\* Mutant: the new entry records the observer's chunk as its position.
NewManagedChunk_AtObserver(pos, cc, worldgen) ==
    LET dist2 == ChunkDist2(pos, cc)
    IN  IF WithinRadius(dist2, 1, ACTIVE_RADIUS)
        THEN ManagedChunk(cc, "Active", Some(FromWorldgen(worldgen, pos)), None, None)
        ELSE IF WithinRadius(dist2, 1, LOD_RADIUS)
        THEN ManagedChunk(cc, "LOD", None, None, None)
        ELSE ManagedChunk(cc, "Unloaded", None, None, None)

\* The entry a load loop inserts for pos
NewManagedChunk(pos, cc, worldgen) ==
    LET dist2 == ChunkDist2(pos, cc)
    IN  IF WithinRadius(dist2, 1, ACTIVE_RADIUS)
        THEN ManagedChunk(pos, "Active", Some(FromWorldgen(worldgen, pos)), None, None)
        ELSE IF WithinRadius(dist2, 1, LOD_RADIUS)
        THEN ManagedChunk(pos, "LOD", None, None, None)
        ELSE ManagedChunk(pos, "Unloaded", None, None, None)

InsertAll(chunks, list, cc, worldgen) ==
    LET new == {list[i] : i \in 1..Len(list)}
    IN  [pos \in DOMAIN chunks \cup new |->
            IF pos \in new THEN NewManagedChunk(pos, cc, worldgen) ELSE chunks[pos]]

\* `let x = value;`: the one element of {value}, which names a value computed
\* once for the statements that follow.
Let(S) == CHOOSE x \in S : TRUE

\* Mutant: the second load loop starts its own counter.
StreamingTick_OwnCounter(chunks, cam, forward, r) ==
    LET cc == CameraChunk(cam)
        ldx == LookDelta(forward[1], forward)
        ldz == LookDelta(forward[3], forward)
        worldgen == WorldGenNew(WORLDGEN_LEVELS, CHUNK_SIZE, WORLDGEN_SEED)
        Generate(kept, priority, to_load) ==
            LET np == LoadCount(priority, 1, 0)
                first == SubSeq(priority, 1, np)
                nr == LoadCount(to_load, 1, 0)
                second == SubSeq(to_load, 1, nr)
            IN  [priority |-> priority,
                 to_load |-> to_load,
                 from_priority |-> first,
                 from_range |-> second,
                 loaded_chunks |-> InsertAll(kept, first \o second, cc, worldgen)]
        Listed(kept, priority) ==
            Let({Generate(kept, priority, to_load) :
                    to_load \in {ChunksToLoad(DOMAIN kept, priority, cc, r)}})
        Evicted(kept) ==
            Let({Listed(kept, priority) :
                    priority \in {PriorityChunks(DOMAIN kept, cc, ldx, ldz, r)}})
    IN  Let({Evicted(kept) : kept \in {Evict(chunks, cc)}})

\* One whole call: what it listed, what it generated and the map it leaves.
StreamingTick(chunks, cam, forward, r) ==
    LET cc == CameraChunk(cam)
        ldx == LookDelta(forward[1], forward)
        ldz == LookDelta(forward[3], forward)
        worldgen == WorldGenNew(WORLDGEN_LEVELS, CHUNK_SIZE, WORLDGEN_SEED)
        Generate(kept, priority, to_load) ==
            LET np == LoadCount(priority, 1, 0)
                first == SubSeq(priority, 1, np)
                nr == LoadCount(to_load, 1, np)
                second == SubSeq(to_load, 1, nr)
            IN  [priority |-> priority,
                 to_load |-> to_load,
                 from_priority |-> first,
                 from_range |-> second,
                 loaded_chunks |-> InsertAll(kept, first \o second, cc, worldgen)]
        Listed(kept, priority) ==
            Let({Generate(kept, priority, to_load) :
                    to_load \in {ChunksToLoad(DOMAIN kept, priority, cc, r)}})
        Evicted(kept) ==
            Let({Listed(kept, priority) :
                    priority \in {PriorityChunks(DOMAIN kept, cc, ldx, ldz, r)}})
    IN  Let({Evicted(kept) : kept \in {Evict(chunks, cc)}})

----------------------------------------------------------------------------
(* Visual sync: update_chunk_entities_system *)

RECURSIVE ISqrtIn(_, _, _)
ISqrtIn(n, lo, hi) ==
    IF lo = hi THEN lo
    ELSE LET mid == (lo + hi + 1) \div 2
         IN  IF mid * mid <= n THEN ISqrtIn(n, mid, hi) ELSE ISqrtIn(n, lo, mid - 1)

ISqrt(n) == ISqrtIn(n, 0, 46340)

\* is_sphere_in_frustum for the chunk sphere, radius 8 * 0.87 = 6.96 m, with
\* forward = f / |f|.  s = to . f, n2 = f . f, t2 = to . to, root = floor(1000 |f|).
\* The comparisons are those of the source multiplied through by n2 (and by 4).
IsSphereInFrustum(cam, f, root, center) ==
    LET to == <<center[1] - cam[1], center[2] - cam[2], center[3] - cam[3]>>
        s == Dot(to, f)
        n2 == Dot(f, f)
        t2 == Dot(to, to)
        behind == s < 0 /\ s * s > (484416 * n2) \div 10000
        along == s > 0 /\ 100 * s * s >= n2
        perp2n == t2 * n2 - s * s
    IN  IF behind THEN FALSE
        ELSE IF along
        THEN ~(4 * perp2n - 21 * s * s - (1937664 * n2) \div 10000
                   > (((127579 * s) \div 1000) * root) \div 1000)
        ELSE ~(perp2n > (516836 * n2) \div 10000)

\* Mutant: the state alone decides, whether the geometry is resident or not.
ShouldHaveEntity_StateOnly(mc) == mc.state # "Unloaded"

ShouldHaveEntity(mc) ==
    CASE mc.state = "Active" -> mc.chunk # None
      [] mc.state = "LOD" -> mc.lod_mesh # None
      [] OTHER -> FALSE

\* The entity spawned for the entry at pos: fresh among the live ones.
SpawnedEntity(pos, mc, live) ==
    [origin |-> pos,
     serial |-> Cardinality({e \in live : e.origin = pos}),
     state |-> mc.state]

\* Mutant: an entry that loses its entity loses its grid with it.
SyncEntry_DropGrid(pos, mc, cam, f, root, live) ==
    IF ~ShouldHaveEntity(mc)
    THEN [mc EXCEPT !.entity = None]
    ELSE IF IsSphereInFrustum(cam, f, root, ChunkCenter(pos))
         THEN IF mc.entity = None
              THEN [mc EXCEPT !.entity = Some(SpawnedEntity(pos, mc, live))]
              ELSE mc
         ELSE [mc EXCEPT !.entity = None, !.chunk = None]

\* One entry of update_chunk_entities_system (plugins/world.rs)
SyncEntry(pos, mc, cam, f, root, live) ==
    IF ~ShouldHaveEntity(mc)
    THEN [mc EXCEPT !.entity = None]
    ELSE IF IsSphereInFrustum(cam, f, root, ChunkCenter(pos))
         THEN IF mc.entity = None
              THEN [mc EXCEPT !.entity = Some(SpawnedEntity(pos, mc, live))]
              ELSE mc
         ELSE [mc EXCEPT !.entity = None]

\* One entry of the update_chunk_entities_system of systems.rs, which has no
\* frustum test and is added to no schedule.
SyncEntryUnculled(pos, mc, live) ==
    LET spawned ==
            IF ShouldHaveEntity(mc) /\ mc.entity = None
            THEN [mc EXCEPT !.entity = Some(SpawnedEntity(pos, mc, live))]
            ELSE mc
    IN  IF ~ShouldHaveEntity(mc) THEN [spawned EXCEPT !.entity = None] ELSE spawned

----------------------------------------------------------------------------
(* State after the Startup schedule: camera spawned, task submitted *)

NoProbe == [phase |-> "none"]

NoTick == [priority |-> <<>>, to_load |-> <<>>, from_priority |-> <<>>, from_range |-> <<>>]

Init ==
    /\ game_state = "Loading"
    /\ task_slot = Some("initial_chunks")
    /\ worker = "running"
    /\ chunk_manager = None
    /\ camera_pos = <<0, 10, 0>>
    /\ camera_forward = <<5, -10, 5>>
    /\ world_entities = {}
    /\ steps = 0
    /\ last = "startup"
    /\ before = <<>>
    /\ tick = NoTick
    /\ fault = None
    /\ probe = NoProbe

\* The systems of the Update schedule that name the store as Res or ResMut, and
\* whether the schedule runs them in the given GameState.
StoreRequiredBy ==
    {"update_chunk_lod_system", "update_loading_screen", "update_debug_text"}

Scheduled(system, state) ==
    CASE system = "update_chunk_lod_system" -> TRUE
      [] system = "update_loading_screen" -> state = "Loading"
      [] system = "update_debug_text" -> state = "Playing"
      [] OTHER -> FALSE

\* A scheduled system whose resource parameter names a store that does not
\* exist cannot be run: the engine either leaves it out of the frame (nothing
\* changes) or stops the app on it.
MissingStorePanic(system) ==
    /\ fault = None
    /\ chunk_manager = None
    /\ Scheduled(system, game_state)
    /\ fault' = Some(system)
    /\ last' = "panic"
    /\ UNCHANGED <<game_state, task_slot, worker, chunk_manager, camera_pos,
                   camera_forward, world_entities, steps, before, tick, probe>>

\* The background task runs to the end of its loop.
WorkerFinish ==
    /\ fault = None
    /\ UNCHANGED <<fault, probe>>
    /\ worker = "running"
    /\ worker' = "finished"
    /\ last' = "worker"
    /\ UNCHANGED <<game_state, task_slot, chunk_manager, camera_pos, camera_forward,
                   world_entities, steps, before, tick>>

\* Highest Voxel::Solid of the centre chunk, in metres: from_worldgen writes
\* Voxel::Solid only below world height 0, so chunk (0,0,0) holds none.
MaxGroundY(chunks) ==
    IF <<0, 0, 0>> \in DOMAIN chunks THEN 0 ELSE 10

\* Mutant: the poll publishes the result and puts the task back.
CheckInitialChunkLoadTask_KeepTask ==
    /\ fault = None
    /\ UNCHANGED <<fault, probe>>
    /\ game_state = "Loading"
    /\ task_slot # None
    /\ last' = "poll"
    /\ IF worker = "finished"
       THEN LET manager == [ChunkManagerNew(MANAGER_RADIUS) EXCEPT
                               !.loaded_chunks = InitialChunks]
                ground == MaxGroundY(manager.loaded_chunks)
                eye == <<camera_pos[1], ground + SPAWN_CLEARANCE, camera_pos[3]>>
            IN  /\ task_slot' = task_slot
                /\ chunk_manager' = Some(manager)
                /\ camera_pos' = eye
                /\ camera_forward' = <<5 - eye[1], ground - eye[2], 5 - eye[3]>>
       ELSE /\ task_slot' = task_slot
            /\ UNCHANGED <<chunk_manager, camera_pos, camera_forward>>
    /\ UNCHANGED <<game_state, worker, world_entities, steps, before, tick>>

CheckInitialChunkLoadTask ==
    /\ fault = None
    /\ UNCHANGED <<fault, probe>>
    /\ game_state = "Loading"
    /\ task_slot # None
    /\ last' = "poll"
    /\ IF worker = "finished"
       THEN LET manager == [ChunkManagerNew(MANAGER_RADIUS) EXCEPT
                               !.loaded_chunks = InitialChunks]
                ground == MaxGroundY(manager.loaded_chunks)
                eye == <<camera_pos[1], ground + SPAWN_CLEARANCE, camera_pos[3]>>
            IN  /\ task_slot' = None
                /\ chunk_manager' = Some(manager)
                /\ camera_pos' = eye
                /\ camera_forward' = <<5 - eye[1], ground - eye[2], 5 - eye[3]>>
       ELSE /\ task_slot' = task_slot
            /\ UNCHANGED <<chunk_manager, camera_pos, camera_forward>>
    /\ UNCHANGED <<game_state, worker, world_entities, steps, before, tick>>

UpdateLoadingScreen ==
    /\ fault = None
    /\ UNCHANGED <<fault, probe>>
    /\ game_state = "Loading"
    /\ chunk_manager # None
    /\ LET manager == chunk_manager[1]
           total == (manager.radius * 2 + 1) * (manager.radius * 2 + 1)
                        * (manager.radius * 2 + 1)
           loaded == Cardinality(DOMAIN manager.loaded_chunks)
       IN  game_state' = IF 100 * loaded > 98 * total THEN "Playing" ELSE game_state
    /\ last' = "loading_screen"
    /\ before' = <<>>
    /\ tick' = NoTick
    /\ UNCHANGED <<task_slot, worker, chunk_manager, camera_pos, camera_forward,
                   world_entities, steps>>

\* camera_movement: what the translation and rotation keys held over a run of
\* frames add up to; the keys are touched once the world is shown.
CameraMovement(pose) ==
    /\ fault = None
    /\ UNCHANGED <<fault, probe>>
    /\ game_state = "Playing"
    /\ steps < MaxSteps
    /\ <<pose.translation, pose.forward>> # <<camera_pos, camera_forward>>
    /\ camera_pos' = pose.translation
    /\ camera_forward' = pose.forward
    /\ steps' = steps + 1
    /\ last' = "camera"
    /\ before' = <<>>
    /\ tick' = NoTick
    /\ UNCHANGED <<game_state, task_slot, worker, chunk_manager, world_entities>>

UpdateChunkLod ==
    /\ fault = None
    /\ UNCHANGED <<fault, probe>>
    /\ chunk_manager # None
    /\ steps < MaxSteps
    /\ LET chunks == chunk_manager[1].loaded_chunks
       IN  /\ chunk_manager' = Some([chunk_manager[1] EXCEPT !.loaded_chunks =
                  [pos \in DOMAIN chunks |-> LodTransition(pos, chunks[pos], camera_pos)]])
           /\ before' = chunks
    /\ steps' = steps + 1
    /\ last' = "lod"
    /\ tick' = NoTick
    /\ UNCHANGED <<game_state, task_slot, worker, camera_pos, camera_forward,
                   world_entities>>

ManageChunkLoading ==
    /\ fault = None
    /\ UNCHANGED <<fault, probe>>
    /\ game_state = "Playing"
    /\ chunk_manager # None
    /\ steps < MaxSteps
    /\ LET manager == chunk_manager[1]
           result == StreamingTick(manager.loaded_chunks, camera_pos, camera_forward,
                                   manager.radius)
       IN  /\ chunk_manager' = Some([manager EXCEPT !.loaded_chunks = result.loaded_chunks])
           /\ tick' = [priority |-> result.priority,
                       to_load |-> result.to_load,
                       from_priority |-> result.from_priority,
                       from_range |-> result.from_range]
           /\ before' = manager.loaded_chunks
    /\ steps' = steps + 1
    /\ last' = "stream"
    /\ UNCHANGED <<game_state, task_slot, worker, camera_pos, camera_forward,
                   world_entities>>

UpdateChunkEntities ==
    /\ fault = None
    /\ UNCHANGED <<fault, probe>>
    /\ game_state = "Playing"
    /\ chunk_manager # None
    /\ steps < MaxSteps
    /\ LET manager == chunk_manager[1]
           chunks == manager.loaded_chunks
           root == ISqrt(1000000 * Dot(camera_forward, camera_forward))
           synced == [pos \in DOMAIN chunks |->
                         SyncEntry(pos, chunks[pos], camera_pos, camera_forward, root,
                                   world_entities)]
           despawned == {chunks[pos].entity[1] : pos \in
                            {q \in DOMAIN chunks :
                                chunks[q].entity # None /\ synced[q].entity = None}}
           spawned == {synced[pos].entity[1] : pos \in
                          {q \in DOMAIN chunks :
                              chunks[q].entity = None /\ synced[q].entity # None}}
       IN  /\ chunk_manager' = Some([manager EXCEPT !.loaded_chunks = synced])
           /\ world_entities' = (world_entities \ despawned) \cup spawned
           /\ before' = chunks
    /\ steps' = steps + 1
    /\ last' = "sync"
    /\ tick' = NoTick
    /\ UNCHANGED <<game_state, task_slot, worker, camera_pos, camera_forward>>

\* update_debug_text: reads the camera and the store, writes the debug overlay.
UpdateDebugText ==
    /\ fault = None
    /\ UNCHANGED <<fault, probe>>
    /\ game_state = "Playing"
    /\ chunk_manager # None
    /\ last' = "debug_text"
    /\ before' = <<>>
    /\ tick' = NoTick
    /\ UNCHANGED <<game_state, task_slot, worker, chunk_manager, camera_pos,
                   camera_forward, world_entities, steps>>

Next ==
    \/ \E system \in StoreRequiredBy : MissingStorePanic(system)
    \/ WorkerFinish
    \/ CheckInitialChunkLoadTask
    \/ UpdateLoadingScreen
    \/ \E pose \in CamPoses : CameraMovement(pose)
    \/ UpdateChunkLod
    \/ ManageChunkLoading
    \/ UpdateChunkEntities
    \/ UpdateDebugText

Spec == Init /\ [][Next]_vars

\* The worker thread runs, and the Update schedule runs its systems every frame.
FairSpec ==
    /\ Init
    /\ [][Next]_vars
    /\ WF_vars(WorkerFinish)
    /\ WF_vars(CheckInitialChunkLoadTask)
    /\ WF_vars(UpdateLoadingScreen)

----------------------------------------------------------------------------
(* The Update schedule, frame by frame *)

\* Every add_systems(Update, ..) of the plugins VoxelFortressPlugins adds, with the
\* run condition of the call.
UpdateSchedule ==
    {[plugin |-> "CameraPlugin", system |-> "camera_movement", run_if |-> "Always"],
     [plugin |-> "CameraPlugin", system |-> "camera_mouse_look", run_if |-> "Always"],
     [plugin |-> "WorldPlugin", system |-> "check_initial_chunk_load_task",
      run_if |-> "Loading"],
     [plugin |-> "WorldPlugin", system |-> "update_chunk_entities_system",
      run_if |-> "Playing"],
     [plugin |-> "WorldPlugin", system |-> "update_chunk_lod_system",
      run_if |-> "Playing"],
     [plugin |-> "UiPlugin", system |-> "update_loading_screen", run_if |-> "Loading"],
     [plugin |-> "UiPlugin", system |-> "update_debug_text", run_if |-> "Playing"],
     [plugin |-> "TerrainPlugin", system |-> "update_chunk_lod_system",
      run_if |-> "Always"]}

\* Mutant: every system runs in every state.
RunIf_Always(reg, state) == TRUE

\* in_state(..) reads State<GameState>, which changes between frames only.
RunIf(reg, state) == reg.run_if = "Always" \/ reg.run_if = state

\* probe in a frame: the frame's number, the systems the schedule has still to run
\* and has run, and what the frame's systems left for the frame's end: the queued
\* insert_resource command and the NextState.
FrameProbe(frame, pending, ran, commands, next_state) ==
    [phase |-> "frame", frame |-> frame, pending |-> pending, ran |-> ran,
     commands |-> commands, next_state |-> next_state]

FrameInit ==
    /\ Init!1 /\ Init!2 /\ Init!3 /\ Init!4 /\ Init!5 /\ Init!6 /\ Init!7
    /\ Init!8 /\ Init!9 /\ Init!10 /\ Init!11 /\ Init!12
    /\ probe = FrameProbe(0, {}, {}, None, None)

\* The schedule takes a system that has not run in this frame: the executor is
\* free in the order of systems that no ordering constraint relates.
Dispatch(reg, system) ==
    /\ fault = None
    /\ probe.phase = "frame"
    /\ reg \in probe.pending
    /\ reg.system = system

Ran(reg) == [probe EXCEPT !.pending = @ \ {reg}, !.ran = @ \cup {reg}]

\* Between two frames: the commands queued in Update are applied, the state
\* transition takes NextState, and the run conditions pick the frame's systems.
NextFrame ==
    /\ fault = None
    /\ probe.phase = "frame"
    /\ probe.pending = {}
    /\ probe.frame < MaxFrames
    /\ chunk_manager' = IF probe.commands # None THEN probe.commands ELSE chunk_manager
    /\ game_state' = IF probe.next_state # None THEN probe.next_state[1] ELSE game_state
    /\ probe' = FrameProbe(probe.frame + 1,
                           {reg \in UpdateSchedule : RunIf(reg, game_state')},
                           {}, None, None)
    /\ last' = "frame"
    /\ UNCHANGED <<task_slot, worker, camera_pos, camera_forward, world_entities,
                   steps, before, tick, fault>>

\* camera_movement and camera_mouse_look with no key held and no button pressed
FrameCameraSystem(reg) ==
    /\ \/ Dispatch(reg, "camera_movement")
       \/ Dispatch(reg, "camera_mouse_look")
    /\ probe' = Ran(reg)
    /\ last' = "camera"
    /\ UNCHANGED <<game_state, task_slot, worker, chunk_manager, camera_pos,
                   camera_forward, world_entities, steps, before, tick, fault>>

\* check_initial_chunk_load_task; commands.insert_resource is applied after the
\* schedule has run.
FrameCheckInitialChunkLoadTask(reg) ==
    /\ Dispatch(reg, "check_initial_chunk_load_task")
    /\ last' = "poll"
    /\ IF task_slot # None /\ worker = "finished"
       THEN LET manager == [ChunkManagerNew(MANAGER_RADIUS) EXCEPT
                               !.loaded_chunks = InitialChunks]
                ground == MaxGroundY(manager.loaded_chunks)
                eye == <<camera_pos[1], ground + SPAWN_CLEARANCE, camera_pos[3]>>
            IN  /\ task_slot' = None
                /\ probe' = [Ran(reg) EXCEPT !.commands = Some(manager)]
                /\ camera_pos' = eye
                /\ camera_forward' = <<5 - eye[1], ground - eye[2], 5 - eye[3]>>
       ELSE /\ probe' = Ran(reg)
            /\ UNCHANGED <<task_slot, camera_pos, camera_forward>>
    /\ UNCHANGED <<game_state, worker, chunk_manager, world_entities, steps, before,
                   tick, fault>>

FrameUpdateLoadingScreen(reg) ==
    /\ Dispatch(reg, "update_loading_screen")
    /\ chunk_manager # None
    /\ LET manager == chunk_manager[1]
           total == (manager.radius * 2 + 1) * (manager.radius * 2 + 1)
                        * (manager.radius * 2 + 1)
           loaded == Cardinality(DOMAIN manager.loaded_chunks)
       IN  probe' = IF 100 * loaded > 98 * total
                    THEN [Ran(reg) EXCEPT !.next_state = Some("Playing")]
                    ELSE Ran(reg)
    /\ last' = "loading_screen"
    /\ UNCHANGED <<game_state, task_slot, worker, chunk_manager, camera_pos,
                   camera_forward, world_entities, steps, before, tick, fault>>

FrameUpdateChunkLod(reg) ==
    /\ Dispatch(reg, "update_chunk_lod_system")
    /\ chunk_manager # None
    /\ LET chunks == chunk_manager[1].loaded_chunks
       IN  /\ chunk_manager' = Some([chunk_manager[1] EXCEPT !.loaded_chunks =
                  [pos \in DOMAIN chunks |-> LodTransition(pos, chunks[pos], camera_pos)]])
           /\ before' = chunks
    /\ probe' = Ran(reg)
    /\ last' = "lod"
    /\ UNCHANGED <<game_state, task_slot, worker, camera_pos, camera_forward,
                   world_entities, steps, tick, fault>>

\* update_chunk_entities_system takes Option<ResMut<ChunkManager>> and returns
\* at once without a store.
FrameUpdateChunkEntities(reg) ==
    /\ Dispatch(reg, "update_chunk_entities_system")
    /\ probe' = Ran(reg)
    /\ last' = "sync"
    /\ IF chunk_manager = None
       THEN UNCHANGED <<chunk_manager, world_entities, before>>
       ELSE LET manager == chunk_manager[1]
                chunks == manager.loaded_chunks
                root == ISqrt(1000000 * Dot(camera_forward, camera_forward))
                synced == [pos \in DOMAIN chunks |->
                              SyncEntry(pos, chunks[pos], camera_pos, camera_forward,
                                        root, world_entities)]
                despawned == {chunks[pos].entity[1] : pos \in
                                 {q \in DOMAIN chunks :
                                     chunks[q].entity # None /\ synced[q].entity = None}}
                spawned == {synced[pos].entity[1] : pos \in
                               {q \in DOMAIN chunks :
                                   chunks[q].entity = None /\ synced[q].entity # None}}
            IN  /\ chunk_manager' = Some([manager EXCEPT !.loaded_chunks = synced])
                /\ world_entities' = (world_entities \ despawned) \cup spawned
                /\ before' = chunks
    /\ UNCHANGED <<game_state, task_slot, worker, camera_pos, camera_forward, steps,
                   tick, fault>>

FrameUpdateDebugText(reg) ==
    /\ Dispatch(reg, "update_debug_text")
    /\ chunk_manager # None
    /\ probe' = Ran(reg)
    /\ last' = "debug_text"
    /\ UNCHANGED <<game_state, task_slot, worker, chunk_manager, camera_pos,
                   camera_forward, world_entities, steps, before, tick, fault>>

\* A system whose Res or ResMut names a store that does not exist: the engine
\* leaves it out of the frame, or stops the app on it.
FrameSkipSystem(reg) ==
    /\ \E system \in StoreRequiredBy : Dispatch(reg, system)
    /\ chunk_manager = None
    /\ probe' = [probe EXCEPT !.pending = @ \ {reg}]
    /\ last' = "skipped"
    /\ UNCHANGED <<game_state, task_slot, worker, chunk_manager, camera_pos,
                   camera_forward, world_entities, steps, before, tick, fault>>

FramePanic(reg) ==
    /\ \E system \in StoreRequiredBy : Dispatch(reg, system)
    /\ chunk_manager = None
    /\ fault' = Some(reg.system)
    /\ last' = "panic"
    /\ UNCHANGED <<game_state, task_slot, worker, chunk_manager, camera_pos,
                   camera_forward, world_entities, steps, before, tick, probe>>

FrameNext ==
    \/ WorkerFinish
    \/ NextFrame
    \/ \E reg \in UpdateSchedule :
           \/ FrameCameraSystem(reg)
           \/ FrameCheckInitialChunkLoadTask(reg)
           \/ FrameUpdateLoadingScreen(reg)
           \/ FrameUpdateChunkLod(reg)
           \/ FrameUpdateChunkEntities(reg)
           \/ FrameUpdateDebugText(reg)
           \/ FrameSkipSystem(reg)
           \/ FramePanic(reg)

FrameSpec == FrameInit /\ [][FrameNext]_vars

----------------------------------------------------------------------------
(* The streaming tick run every frame with the observer at rest *)

\* Where the observer rests: the pose the publication leaves, the poses the
\* camera input reaches, and one far from every chunk of the initial cube.
StreamPoses ==
    CamPoses \cup
        {[translation |-> <<0, 3, 0>>, forward |-> <<5, -3, 5>>],
         [translation |-> <<204, 4, -100>>, forward |-> <<0, 0, -1>>]}

StreamInit ==
    /\ game_state = "Playing"
    /\ task_slot = None
    /\ worker = "finished"
    /\ chunk_manager =
           Some([ChunkManagerNew(MANAGER_RADIUS) EXCEPT !.loaded_chunks = InitialChunks])
    /\ \E pose \in StreamPoses :
           /\ camera_pos = pose.translation
           /\ camera_forward = pose.forward
    /\ world_entities = {}
    /\ steps = 0
    /\ last = "camera"
    /\ before = <<>>
    /\ tick = NoTick
    /\ fault = None
    /\ probe = NoProbe

\* manage_chunk_loading once per frame, for as many frames as there are.
ManageChunkLoadingEveryFrame ==
    /\ fault = None
    /\ game_state = "Playing"
    /\ chunk_manager # None
    /\ \E result \in {StreamingTick(chunk_manager[1].loaded_chunks, camera_pos,
                                      camera_forward, chunk_manager[1].radius)} :
           /\ chunk_manager' =
                  Some([chunk_manager[1] EXCEPT !.loaded_chunks = result.loaded_chunks])
           /\ tick' = [priority |-> result.priority,
                       to_load |-> result.to_load,
                       from_priority |-> result.from_priority,
                       from_range |-> result.from_range]
           /\ before' = chunk_manager[1].loaded_chunks
    /\ last' = "stream"
    /\ UNCHANGED <<game_state, task_slot, worker, camera_pos, camera_forward,
                   world_entities, steps, fault, probe>>

StreamNext == ManageChunkLoadingEveryFrame

StreamSpec == StreamInit /\ [][StreamNext]_vars /\ WF_vars(ManageChunkLoadingEveryFrame)

----------------------------------------------------------------------------
(* Terrain generation: one (x, z) column of Chunk::from_worldgen *)

\* Heights and noise values are integers in tenths; a density is kept times 100.
\* The noise generators are inputs: a field gives the value at world height wy.
NoiseAt(field, wy) == IF wy % 2 = 0 THEN field.even ELSE field.odd

\* Mutant: the temperate rows tried in the other order (r > 0.3 before r > 0.6).
GetBiome_RowsSwapped(temp, rain) ==
    IF temp > 7 /\ rain > 7 THEN 0
    ELSE IF temp > 7 /\ rain > 3 THEN 1
    ELSE IF temp > 7 THEN 3
    ELSE IF temp > 4 /\ rain > 3 THEN 1
    ELSE IF temp > 4 /\ rain > 6 THEN 0
    ELSE IF temp > 4 THEN 3
    ELSE IF temp > 2 /\ rain > 5 THEN 2
    ELSE IF temp > 2 THEN 1
    ELSE 2

\* get_biome's classification of (temp, rain), both in tenths
GetBiome(temp, rain) ==
    CASE temp > 7 /\ rain > 7 -> 0
      [] temp > 7 /\ rain <= 7 /\ rain > 3 -> 1
      [] temp > 7 /\ rain <= 3 -> 3
      [] temp <= 7 /\ temp > 4 /\ rain > 6 -> 0
      [] temp <= 7 /\ temp > 4 /\ rain <= 6 /\ rain > 3 -> 1
      [] temp <= 7 /\ temp > 4 /\ rain <= 3 -> 3
      [] temp <= 4 /\ temp > 2 /\ rain > 5 -> 2
      [] temp <= 4 /\ temp > 2 /\ rain <= 5 -> 1
      [] OTHER -> 2

BiomeVoxel(biome) ==
    CASE biome = 0 -> "Forest"
      [] biome = 1 -> "Plains"
      [] biome = 2 -> "Taiga"
      [] biome = 3 -> "Desert"
      [] OTHER -> "Stone"

\* Mutant: the cave band begins 1.0 below the surface instead of 10.0.
GetDensity_ShallowCaves(y, surface_height, cave_noise_val, detail_noise_val) ==
    LET depth == surface_height - 10 * y
        surface_density == IF depth > 0 THEN 2 * depth ELSE -100
        cave_carver ==
            IF depth > 10 /\ depth < 800
            THEN IF cave_noise_val > cave_threshold THEN -100 ELSE 0
            ELSE 0
        small_detail == detail_noise_val
    IN  surface_density + cave_carver + small_detail

\* get_density times 100: y in whole units, surface_height, cave and detail noise
\* in tenths
GetDensity(y, surface_height, cave_noise_val, detail_noise_val) ==
    LET depth == surface_height - 10 * y
        surface_density == IF depth > 0 THEN 2 * depth ELSE -100
        cave_carver ==
            IF depth > 100 /\ depth < 800
            THEN IF cave_noise_val > cave_threshold THEN -100 ELSE 0
            ELSE 0
        small_detail == detail_noise_val
    IN  surface_density + cave_carver + small_detail

\* Mutant: the density decides below sea level as it does above.
ColumnVoxel_DensityEverywhere(wy, surface_height, biome, cave, detail) ==
    IF GetDensity(wy, surface_height, NoiseAt(cave, wy), NoiseAt(detail, wy)) > 0
    THEN BiomeVoxel(biome)
    ELSE "Air"

\* The voxel the innermost loop leaves at world height wy
ColumnVoxel(wy, surface_height, biome, cave, detail) ==
    IF 10 * wy < 10 * water_level
    THEN IF 10 * wy < surface_height THEN "Solid" ELSE "Air"
    ELSE IF GetDensity(wy, surface_height, NoiseAt(cave, wy), NoiseAt(detail, wy)) > 0
         THEN BiomeVoxel(biome)
         ELSE "Air"

\* What get_height, the climate noise and the 3D noise may give for a column
ColumnInputs ==
    [chunk_y : -1..1,
     surface_height : {-200, -45, 35, 120, 400},
     temp : {2, 4, 7, 8},
     rain : {3, 5, 6, 8},
     cave : {[even |-> 0, odd |-> 0], [even |-> 10, odd |-> 6]},
     detail : [even : {-10, 0, 10}, odd : {-10, 10}]]

ColumnInit ==
    /\ Init!1 /\ Init!2 /\ Init!3 /\ Init!4 /\ Init!5 /\ Init!6 /\ Init!7
    /\ Init!8 /\ Init!9 /\ Init!10 /\ Init!11 /\ Init!12
    /\ \E in \in ColumnInputs : probe = [phase |-> "column", in |-> in]

\* for y in 0..CHUNK_SIZE of one column of the chunk at height chunk_y
FromWorldgenColumn ==
    /\ probe.phase = "column"
    /\ LET in == probe.in
           base_y == in.chunk_y * CHUNK_SIZE
           biome == GetBiome(in.temp, in.rain)
       IN  probe' = [phase |-> "column_filled",
                     in |-> in,
                     biome |-> biome,
                     voxels |-> [y \in 0..(CHUNK_SIZE - 1) |->
                                    ColumnVoxel(base_y + y, in.surface_height, biome,
                                                in.cave, in.detail)]]
    /\ UNCHANGED <<game_state, task_slot, worker, chunk_manager, camera_pos,
                   camera_forward, world_entities, steps, last, before, tick, fault>>

\* for y in (0..CHUNK_SIZE).rev() of check_initial_chunk_load_task: the index of
\* the first Voxel::Solid met from the top of a column, 0 where the column has none
\* (max_ground_y starts at 0.0 and only grows).
ColumnGroundY(voxels) ==
    LET solid == {y \in DOMAIN voxels : voxels[y] = "Solid"}
    IN  IF solid = {} THEN 0 ELSE CHOOSE y \in solid : \A other \in solid : other <= y

\* The spawn-height scan over a column of the centre chunk (0, 0, 0); heights in
\* voxels, i.e. quarter metres.
SpawnHeightScan ==
    /\ probe.phase = "column_filled"
    /\ probe.in.chunk_y = 0
    /\ LET max_ground_y == ColumnGroundY(probe.voxels)
       IN  probe' = [phase |-> "scanned",
                     in |-> probe.in,
                     voxels |-> probe.voxels,
                     max_ground_y |-> max_ground_y,
                     camera_y |-> max_ground_y + SPAWN_CLEARANCE * VOXELS_PER_METER]
    /\ UNCHANGED <<game_state, task_slot, worker, chunk_manager, camera_pos,
                   camera_forward, world_entities, steps, last, before, tick, fault>>

ColumnNext == FromWorldgenColumn \/ SpawnHeightScan

ColumnSpec == ColumnInit /\ [][ColumnNext]_vars

----------------------------------------------------------------------------
(* Mesh extraction: Chunk::to_mesh and face_mesh *)

\* enum Voxel, in declaration order
VoxelKinds ==
    <<"Air", "Solid", "Stone", "Dirt", "Grass", "Sand", "Forest", "Plains", "Taiga",
      "Desert", "Snow">>

\* The six directions in the order to_mesh tries them
FaceDirections ==
    <<[normal |-> <<0, 0, -1>>, face_type |-> "side"],
      [normal |-> <<0, 0, 1>>, face_type |-> "side"],
      [normal |-> <<0, -1, 0>>, face_type |-> "bottom"],
      [normal |-> <<0, 1, 0>>, face_type |-> "top"],
      [normal |-> <<-1, 0, 0>>, face_type |-> "side"],
      [normal |-> <<1, 0, 0>>, face_type |-> "side"]>>

\* The six indices face_mesh gives the quad whose first vertex is i
FaceIndices(normal, i) ==
    IF normal = <<0, 0, 1>>
    THEN <<i, i + 2, i + 1, i, i + 3, i + 2>>
    ELSE <<i, i + 1, i + 2, i, i + 2, i + 3>>

\* face_mesh, lengths in units of VOXEL_SIZE_METERS (size = 1)
FaceMesh(base, normal, i) ==
    LET x == base[1]
        y == base[2]
        z == base[3]
        verts ==
            CASE normal = <<0, 0, -1>> ->
                    <<<<x, y, z>>, <<x + 1, y, z>>, <<x + 1, y + 1, z>>, <<x, y + 1, z>>>>
              [] normal = <<0, 0, 1>> ->
                    <<<<x, y, z + 1>>, <<x + 1, y, z + 1>>, <<x + 1, y + 1, z + 1>>,
                      <<x, y + 1, z + 1>>>>
              [] normal = <<0, -1, 0>> ->
                    <<<<x, y, z>>, <<x + 1, y, z>>, <<x + 1, y, z + 1>>, <<x, y, z + 1>>>>
              [] normal = <<0, 1, 0>> ->
                    <<<<x, y + 1, z>>, <<x, y + 1, z + 1>>, <<x + 1, y + 1, z + 1>>,
                      <<x + 1, y + 1, z>>>>
              [] normal = <<-1, 0, 0>> ->
                    <<<<x, y, z>>, <<x, y + 1, z>>, <<x, y + 1, z + 1>>, <<x, y, z + 1>>>>
              [] normal = <<1, 0, 0>> ->
                    <<<<x + 1, y, z>>, <<x + 1, y, z + 1>>, <<x + 1, y + 1, z + 1>>,
                      <<x + 1, y + 1, z>>>>
    IN  [verts |-> verts, norms |-> <<normal, normal, normal, normal>>,
         inds |-> FaceIndices(normal, i)]

\* The voxel next to pos in direction normal; outside the grid it counts as Air.
Neighbor(voxels, edge, pos, normal) ==
    LET n == <<pos[1] + normal[1], pos[2] + normal[2], pos[3] + normal[3]>>
    IN  IF \E c \in 1..3 : n[c] < 0 \/ n[c] >= edge THEN "Air" ELSE voxels[n]

\* Mutant: the meshers take every voxel, Air included.
Meshed_Any(voxel) == TRUE

\* The voxels to_mesh emits faces for, and to_lod_mesh looks for
Meshed(voxel) == voxel = "Solid"

\* The k-th (voxel, direction) pair of the loops, k from 0: x, then y, then z,
\* then the direction.
FaceCandidate(k, edge) ==
    [pos |-> <<k \div (edge * edge * 6), (k \div (edge * 6)) % edge, (k \div 6) % edge>>,
     dir |-> FaceDirections[(k % 6) + 1]]

\* The colour to_mesh gives the four vertices of a face of the voxel at pos
FaceColor(voxels, edge, pos, face_type) ==
    LET voxel == voxels[pos]
        above == IF pos[2] + 1 < edge THEN voxels[<<pos[1], pos[2] + 1, pos[3]>>] ELSE "Air"
    IN  CASE voxel = "Stone" -> "stone"
          [] voxel = "Dirt" -> "dirt"
          [] voxel = "Grass" -> IF face_type = "top" THEN "grass_top" ELSE "grass_side"
          [] voxel = "Sand" -> "sand"
          [] voxel = "Forest" -> IF face_type = "top" THEN "forest" ELSE "dirt"
          [] voxel = "Plains" -> IF face_type = "top" THEN "plains" ELSE "dirt"
          [] voxel = "Taiga" -> IF face_type = "top" THEN "taiga" ELSE "dirt"
          [] voxel = "Desert" -> "desert"
          [] voxel = "Snow" -> "snow"
          [] OTHER ->
                IF face_type = "top" /\ above = "Air" THEN "green"
                ELSE IF face_type = "side" THEN [brown_to_green |-> pos[2]]
                ELSE "brown"

\* The mesh both meshers return when they emitted nothing: every attribute
\* inserted, each empty.
EmptyMesh ==
    [quads |-> <<>>, positions |-> <<>>, normals |-> <<>>, colors |-> <<>>, uvs |-> <<>>,
     indices |-> <<>>]

\* The attribute arrays of the quads, in emission order
MeshOf(quads, colors) ==
    LET Face(j) == FaceMesh(quads[j].pos, quads[j].dir.normal, 4 * (j - 1))
        corner == <<<<0, 0>>, <<1, 0>>, <<1, 1>>, <<0, 1>>>>
    IN  IF quads = <<>>
        THEN EmptyMesh
        ELSE [quads |-> quads,
              positions |-> [m \in 1..(4 * Len(quads)) |->
                                Face(((m - 1) \div 4) + 1).verts[((m - 1) % 4) + 1]],
              normals |-> [m \in 1..(4 * Len(quads)) |->
                              Face(((m - 1) \div 4) + 1).norms[((m - 1) % 4) + 1]],
              colors |-> [m \in 1..(4 * Len(quads)) |-> colors[((m - 1) \div 4) + 1]],
              uvs |-> [m \in 1..(4 * Len(quads)) |-> corner[((m - 1) % 4) + 1]],
              indices |-> [m \in 1..(6 * Len(quads)) |->
                              Face(((m - 1) \div 6) + 1).inds[((m - 1) % 6) + 1]]]

\* to_mesh over a grid of the given edge: the quads in emission order and the
\* attribute arrays built from them.
ToMesh(voxels, edge) ==
    LET candidates == [k \in 1..(edge * edge * edge * 6) |-> FaceCandidate(k - 1, edge)]
        Emits(c) ==
            /\ Meshed(voxels[c.pos])
            /\ Neighbor(voxels, edge, c.pos, c.dir.normal) = "Air"
        quads == SelectSeq(candidates, Emits)
    IN  MeshOf(quads, [j \in 1..Len(quads) |->
                          FaceColor(voxels, edge, quads[j].pos, quads[j].dir.face_type)])

\* The y of the highest voxel to_lod_mesh finds in column (x, z), or None
ColumnTop(voxels, edge, x, z) ==
    LET found == {y \in 0..(edge - 1) : Meshed(voxels[<<x, y, z>>])}
    IN  IF found = {} THEN None ELSE Some(CHOOSE y \in found : \A other \in found : other <= y)

\* to_lod_mesh over a grid of the given edge: columns in the order x, then z,
\* one upward quad on the top of each column that has one.
ToLodMeshOf(voxels, edge) ==
    LET columns == [k \in 1..(edge * edge) |->
                       [x |-> (k - 1) \div edge, z |-> (k - 1) % edge]]
        HasTop(c) == ColumnTop(voxels, edge, c.x, c.z) # None
        tops == SelectSeq(columns, HasTop)
        quads == [j \in 1..Len(tops) |->
                     [pos |-> <<tops[j].x, ColumnTop(voxels, edge, tops[j].x, tops[j].z)[1],
                                tops[j].z>>,
                      dir |-> FaceDirections[4]]]
    IN  MeshOf(quads, [j \in 1..Len(quads) |-> "green"])

\* The grids that are meshed: every filling of a grid of edge CHUNK_SIZE / 16
\* with the first MaxKinds voxel kinds.
MeshEdge == CHUNK_SIZE \div 16

MeshCells == {<<x, y, z>> : x \in 0..(MeshEdge - 1), y \in 0..(MeshEdge - 1),
                            z \in 0..(MeshEdge - 1)}

MeshGrids == [MeshCells -> {VoxelKinds[k] : k \in 1..MaxKinds}]

MeshInit ==
    /\ Init!1 /\ Init!2 /\ Init!3 /\ Init!4 /\ Init!5 /\ Init!6 /\ Init!7
    /\ Init!8 /\ Init!9 /\ Init!10 /\ Init!11 /\ Init!12
    /\ \E voxels \in MeshGrids : probe = [phase |-> "grid", voxels |-> voxels]

ChunkToMesh ==
    /\ probe.phase = "grid"
    /\ probe' = [phase |-> "meshed", voxels |-> probe.voxels,
                 mesh |-> ToMesh(probe.voxels, MeshEdge)]
    /\ UNCHANGED <<game_state, task_slot, worker, chunk_manager, camera_pos,
                   camera_forward, world_entities, steps, last, before, tick, fault>>

ChunkToLodMesh ==
    /\ probe.phase = "grid"
    /\ probe' = [phase |-> "lod_meshed", voxels |-> probe.voxels,
                 mesh |-> ToLodMeshOf(probe.voxels, MeshEdge)]
    /\ UNCHANGED <<game_state, task_slot, worker, chunk_manager, camera_pos,
                   camera_forward, world_entities, steps, last, before, tick, fault>>

MeshNext == ChunkToMesh \/ ChunkToLodMesh

MeshSpec == MeshInit /\ [][MeshNext]_vars

----------------------------------------------------------------------------
(* Properties *)

HasStore == chunk_manager # None
Chunks == chunk_manager[1].loaded_chunks
ObserverChunk == CameraChunk(camera_pos)

\* 100 * (centre-to-observer distance in metres)^2 and 100 * (chunk-space distance)^2;
\* a radius of R tenths of a chunk is (8 * R)^2 and R^2 on these scales.
CenterD2(pos) == 100 * SumSq(camera_pos, ChunkCenter(pos))
ChunkD2(pos) == 100 * SumSq(pos, ObserverChunk)

GridPresent(mc) == mc.chunk # None
MeshPresent(mc) == mc.lod_mesh # None

\* C1: in every reachable store state every ManagedChunk satisfies
\* Active => grid present and LOD mesh absent, LOD => LOD mesh present and grid
\* absent, Unloaded => grid absent and LOD mesh absent.
C1_StateInvariant ==
    HasStore =>
        \A pos \in DOMAIN Chunks :
            LET mc == Chunks[pos]
            IN  /\ mc.state = "Active" => GridPresent(mc) /\ ~MeshPresent(mc)
                /\ mc.state = "LOD" => MeshPresent(mc) /\ ~GridPresent(mc)
                /\ mc.state = "Unloaded" => ~GridPresent(mc) /\ ~MeshPresent(mc)

\* C2: in every reachable store state no ManagedChunk has both its voxel grid
\* and its LOD mesh present.
C2_GridMeshExclusive ==
    HasStore => \A pos \in DOMAIN Chunks : ~(GridPresent(Chunks[pos]) /\ MeshPresent(Chunks[pos]))

\* An LOD update has just turned an entry holding a grid into one holding an LOD
\* mesh, next to entries that still hold their grid.
C2_Witness ==
    /\ HasStore
    /\ last = "lod"
    /\ \E pos \in DOMAIN Chunks :
          GridPresent(before[pos]) /\ MeshPresent(Chunks[pos]) /\ ~GridPresent(Chunks[pos])
    /\ \E pos \in DOMAIN Chunks : GridPresent(Chunks[pos])

\* C3: after one LOD update every entry with d <= ACTIVE_RADIUS is Active with
\* its grid present, whatever its previous state; a previously LOD or Unloaded
\* entry holds a regenerated grid.
C3_ActiveBand ==
    (HasStore /\ last = "lod") =>
        \A pos \in DOMAIN Chunks :
            CenterD2(pos) <= 200 * 200 =>
                /\ Chunks[pos].state = "Active"
                /\ GridPresent(Chunks[pos])
                /\ before[pos].state # "Active" =>
                       Chunks[pos].chunk = Some(FromWorldgen(WorldGenResource, pos))

\* C4: after one LOD update every entry with ACTIVE_RADIUS < d <= LOD_RADIUS is
\* LOD with an LOD mesh present and no grid.
C4_LodBand ==
    (HasStore /\ last = "lod") =>
        \A pos \in DOMAIN Chunks :
            (CenterD2(pos) > 200 * 200 /\ CenterD2(pos) <= 400 * 400) =>
                /\ Chunks[pos].state = "LOD"
                /\ MeshPresent(Chunks[pos])
                /\ ~GridPresent(Chunks[pos])

\* C5: after one LOD update every entry with LOD_RADIUS < d <= UNLOAD_RADIUS is
\* Unloaded with neither grid nor LOD mesh, and its key is still in the store.
C5_UnloadedBand ==
    (HasStore /\ last = "lod") =>
        \A pos \in DOMAIN before :
            (CenterD2(pos) > 400 * 400 /\ CenterD2(pos) <= 640 * 640) =>
                /\ pos \in DOMAIN Chunks
                /\ Chunks[pos].state = "Unloaded"
                /\ ~GridPresent(Chunks[pos])
                /\ ~MeshPresent(Chunks[pos])

\* An LOD update has just unloaded an entry of that band that held a grid, and
\* another that held an LOD mesh.
C5_Witness ==
    /\ HasStore
    /\ last = "lod"
    /\ \E pos \in DOMAIN before :
          /\ CenterD2(pos) > 400 * 400 /\ CenterD2(pos) <= 640 * 640
          /\ GridPresent(before[pos])
    /\ \E pos \in DOMAIN before :
          /\ CenterD2(pos) > 400 * 400 /\ CenterD2(pos) <= 640 * 640
          /\ MeshPresent(before[pos])

\* C6: the thresholds are inclusive on the near side: after an LOD update an
\* entry at exactly d = ACTIVE_RADIUS is Active, at exactly d = LOD_RADIUS is LOD,
\* at exactly d = UNLOAD_RADIUS is Unloaded; and a streaming tick keeps an entry
\* whose chunk-space distance is exactly UNLOAD_RADIUS.
C6_InclusiveThresholds ==
    /\ (HasStore /\ last = "lod") =>
          \A pos \in DOMAIN Chunks :
              /\ CenterD2(pos) = 200 * 200 => Chunks[pos].state = "Active"
              /\ CenterD2(pos) = 400 * 400 => Chunks[pos].state = "LOD"
              /\ CenterD2(pos) = 640 * 640 => Chunks[pos].state = "Unloaded"
    /\ (HasStore /\ last = "stream") =>
          \A pos \in DOMAIN before : ChunkD2(pos) = 80 * 80 => pos \in DOMAIN Chunks

\* An LOD update has just met an entry at exactly d = ACTIVE_RADIUS that was not
\* Active before.
C6_Witness ==
    /\ HasStore
    /\ last = "lod"
    /\ \E pos \in DOMAIN Chunks :
          CenterD2(pos) = 200 * 200 /\ before[pos].state # "Active"

\* C7: after a streaming tick the store holds no entry whose chunk-space
\* distance to the observer's chunk exceeds UNLOAD_RADIUS, the entries inserted
\* by that tick included.
C7_NoEntryBeyondUnload ==
    (HasStore /\ last = "stream") =>
        \A pos \in DOMAIN Chunks : ChunkD2(pos) <= 80 * 80

\* A streaming tick has just dropped an entry at chunk-distance 9 and inserted
\* new entries.
C7_Witness ==
    /\ HasStore
    /\ last = "stream"
    /\ \E pos \in DOMAIN before : ChunkD2(pos) = 90 * 90 /\ pos \notin DOMAIN Chunks
    /\ DOMAIN Chunks \ DOMAIN before # {}

\* C8: within one streaming tick the generations of the priority loop and of
\* the remaining loop together never exceed 5.
C8_Budget ==
    (HasStore /\ last = "stream") =>
        /\ Len(tick.from_priority) + Len(tick.from_range) <= 5
        /\ Cardinality(DOMAIN Chunks \ DOMAIN before) <= 5

\* A streaming tick has just spent its whole budget, part in each loop, with
\* more coordinates listed than it generated.
C8_Witness ==
    /\ HasStore
    /\ last = "stream"
    /\ tick.from_priority # <<>>
    /\ tick.from_range # <<>>
    /\ Len(tick.from_priority) + Len(tick.from_range) = 5
    /\ Len(tick.priority) + Len(tick.to_load) > 5

\* C9: every coordinate a streaming tick generates, from either list, was
\* missing from the store and lies within the streaming radius of the observer's
\* chunk.
C9_GeneratedInRange ==
    (HasStore /\ last = "stream") =>
        LET generated == tick.from_priority \o tick.from_range
        IN  \A i \in 1..Len(generated) :
                /\ generated[i] \notin DOMAIN before
                /\ ChunkD2(generated[i]) <= 100 * chunk_manager[1].radius * chunk_manager[1].radius

\* C10: a streaming tick generates a coordinate of the remaining list only if
\* every entry of its priority list was generated in that tick and budget was left.
C10_PriorityFirst ==
    (HasStore /\ last = "stream") =>
        (tick.from_range # <<>> =>
            /\ tick.from_priority = tick.priority
            /\ Len(tick.priority) < 5)

\* A streaming tick has just generated its whole, non-empty priority list and
\* then a coordinate of the remaining list.
C10_Witness ==
    /\ HasStore
    /\ last = "stream"
    /\ tick.priority # <<>>
    /\ tick.from_priority = tick.priority
    /\ tick.from_range # <<>>
    /\ tick.from_range = SubSeq(tick.to_load, 1, Len(tick.from_range))

\* The coordinates a streaming tick owes the observer: |dy| <= radius / 2 and
\* chunk-space distance <= radius from the observer's chunk.
C11_Owed ==
    LET r == chunk_manager[1].radius
        cc == ObserverChunk
    IN  {pos \in {<<cc[1] + dx, cc[2] + dy, cc[3] + dz>> :
                     dx \in -r..r, dy \in -(r \div 2)..(r \div 2), dz \in -r..r} :
            SumSq(pos, cc) <= r * r}

\* C11: with the observer at rest and the tick run every frame, each tick that
\* finds an owed coordinate missing inserts at least one new entry, and from
\* some tick on every owed coordinate is in the store.
C11_DeferredGenerated ==
    /\ [][(last' = "stream" /\ C11_Owed \ DOMAIN Chunks # {}) =>
              DOMAIN chunk_manager'[1].loaded_chunks \ DOMAIN Chunks # {}]_vars
    /\ <>[](C11_Owed \subseteq DOMAIN Chunks)

\* Ticks have filled the store around an observer whose owed coordinates were
\* not all in the initial cube, the last of them after a tick that had to
\* defer some.
C11_Witness ==
    /\ HasStore
    /\ last = "stream"
    /\ C11_Owed \subseteq DOMAIN Chunks
    /\ C11_Owed \ Cube(<<0, 0, 0>>, INITIAL_RADIUS) # {}
    /\ DOMAIN Chunks \ DOMAIN before # {}

\* C12: an entry inserted by a streaming tick, and every entry of the bulk
\* initial population, starts in the state its chunk-space distance to the
\* observer's chunk gives: Active up to ACTIVE_RADIUS, LOD up to LOD_RADIUS,
\* Unloaded beyond.
C12_InitialStateByDistance ==
    /\ (HasStore /\ last = "stream") =>
          \A pos \in DOMAIN Chunks \ DOMAIN before :
              Chunks[pos].state =
                  IF ChunkD2(pos) <= 25 * 25 THEN "Active"
                  ELSE IF ChunkD2(pos) <= 50 * 50 THEN "LOD" ELSE "Unloaded"
    /\ (HasStore /\ last = "poll") =>
          \A pos \in DOMAIN Chunks :
              Chunks[pos].state =
                  IF ChunkD2(pos) <= 25 * 25 THEN "Active"
                  ELSE IF ChunkD2(pos) <= 50 * 50 THEN "LOD" ELSE "Unloaded"

\* C13: until the job's result is published no store-dependent stage needs the
\* store to exist, so none stops the app for want of it, and the store a stage
\* first sees is the complete one.
C13_StoreNotRequired ==
    /\ ~HasStore => fault = None
    /\ (HasStore /\ last = "poll") =>
          Cardinality(DOMAIN Chunks) =
              (2 * INITIAL_RADIUS + 1) * (2 * INITIAL_RADIUS + 1) * (2 * INITIAL_RADIUS + 1)

\* C14: the result is published once and whole: a poll that finds the job
\* unfinished puts the task back and changes nothing, the step that creates
\* the store consumes the finished task and leaves all (2*5+1)^3 entries, and
\* an empty task slot stays empty.
C14_PublishedOnce ==
    [][/\ task_slot = None => task_slot' = None
       /\ (last' = "poll" /\ worker = "running") =>
              (task_slot' = task_slot /\ chunk_manager' = chunk_manager)
       /\ (last' = "poll" /\ worker = "finished") =>
              (task_slot' = None /\ chunk_manager' # None)
       /\ (chunk_manager = None /\ chunk_manager' # None) =>
              /\ task_slot # None
              /\ task_slot' = None
              /\ worker = "finished"
              /\ DOMAIN chunk_manager'[1].loaded_chunks = Cube(<<0, 0, 0>>, INITIAL_RADIUS)
       /\ chunk_manager # None => chunk_manager' # None]_vars

\* The poll has just consumed the finished task and published the whole map.
C14_Witness ==
    /\ HasStore
    /\ last = "poll"
    /\ task_slot = None
    /\ worker = "finished"
    /\ Cardinality(DOMAIN Chunks) = 1331

\* C15: with the worker and the per-tick systems scheduled fairly, the job's
\* result is eventually published and the game eventually is Playing.
C15_LoadingEnds == <>(chunk_manager # None /\ game_state = "Playing")

\* C17: an entry of the initial population, generated Active with its grid,
\* holds that same grid whenever it is Active again, whatever states it passed
\* through in between.
C17_RoundTripGrid ==
    HasStore =>
        \A pos \in DOMAIN Chunks \cap Cube(<<0, 0, 0>>, INITIAL_RADIUS) :
            Chunks[pos].state = "Active" =>
                Chunks[pos].chunk = Some(FromWorldgen(WorldGenResource, pos))

\* C18: every voxel of a generated column, at any world height, is the
\* material of the column's biome if density(x, y, z, surfaceHeight) > 0 and Air
\* otherwise.
C18_DensityAlone ==
    probe.phase = "column_filled" =>
        \A y \in 0..(CHUNK_SIZE - 1) :
            LET wy == probe.in.chunk_y * CHUNK_SIZE + y
                density == GetDensity(wy, probe.in.surface_height,
                                      NoiseAt(probe.in.cave, wy), NoiseAt(probe.in.detail, wy))
            IN  probe.voxels[y] = IF density > 0 THEN BiomeVoxel(probe.biome) ELSE "Air"

\* C18, amended: at world height >= 0 a voxel is the material of the column's
\* biome if the density is > 0 and Air otherwise; below sea level it is Solid if
\* it lies below the surface height and Air otherwise, whatever the density.
C18_PopulationRule ==
    probe.phase = "column_filled" =>
        \A y \in 0..(CHUNK_SIZE - 1) :
            LET wy == probe.in.chunk_y * CHUNK_SIZE + y
                density == GetDensity(wy, probe.in.surface_height,
                                      NoiseAt(probe.in.cave, wy), NoiseAt(probe.in.detail, wy))
            IN  /\ wy >= 0 =>
                      probe.voxels[y] = IF density > 0 THEN BiomeVoxel(probe.biome) ELSE "Air"
                /\ wy < 0 =>
                      probe.voxels[y] = IF 10 * wy < probe.in.surface_height THEN "Solid" ELSE "Air"

\* A column below sea level has been filled across its surface: Air above it,
\* and below it a Solid voxel where the density is not positive.
C18_Witness ==
    /\ probe.phase = "column_filled"
    /\ probe.in.chunk_y < 0
    /\ \E y \in 0..(CHUNK_SIZE - 1) : probe.voxels[y] = "Air"
    /\ \E y \in 0..(CHUNK_SIZE - 1) :
          LET wy == probe.in.chunk_y * CHUNK_SIZE + y
          IN  /\ probe.voxels[y] = "Solid"
              /\ GetDensity(wy, probe.in.surface_height,
                            NoiseAt(probe.in.cave, wy), NoiseAt(probe.in.detail, wy)) <= 0

\* C19: the full mesher emits exactly one quad of 4 vertices for every pair
\* (non-Air voxel, direction) whose neighbour is Air or outside the grid, and no
\* other quad.
C19_QuadPerExposedFace ==
    probe.phase = "meshed" =>
        LET exposed ==
                {<<pos, f>> \in MeshCells \X (1..6) :
                    /\ probe.voxels[pos] # "Air"
                    /\ LET n == <<pos[1] + FaceDirections[f].normal[1],
                                  pos[2] + FaceDirections[f].normal[2],
                                  pos[3] + FaceDirections[f].normal[3]>>
                       IN  n \in MeshCells => probe.voxels[n] = "Air"}
            quads == probe.mesh.quads
        IN  /\ {<<quads[j].pos, CHOOSE f \in 1..6 : FaceDirections[f] = quads[j].dir>> :
                    j \in 1..Len(quads)} = exposed
            /\ Len(quads) = Cardinality(exposed)
            /\ Len(probe.mesh.positions) = 4 * Cardinality(exposed)

\* C20: a chunk with a non-Air voxel next to an Air voxel has a full mesh with
\* more than zero vertices, and the index count of every full mesh is 1.5 times
\* its vertex count.
C20_MeshWellFormed ==
    probe.phase = "meshed" =>
        /\ (\E pos \in MeshCells, f \in 1..6 :
                /\ probe.voxels[pos] # "Air"
                /\ LET n == <<pos[1] + FaceDirections[f].normal[1],
                              pos[2] + FaceDirections[f].normal[2],
                              pos[3] + FaceDirections[f].normal[3]>>
                   IN  n \in MeshCells /\ probe.voxels[n] = "Air")
               => Len(probe.mesh.positions) > 0
        /\ 2 * Len(probe.mesh.indices) = 3 * Len(probe.mesh.positions)

\* C21: for an all-Air chunk to_mesh and to_lod_mesh both return a mesh whose
\* position, normal, colour, UV and index arrays are all present and empty.
C21_EmptyMeshForAir ==
    (/\ probe.phase \in {"meshed", "lod_meshed"}
     /\ \A pos \in MeshCells : probe.voxels[pos] = "Air") =>
        /\ probe.mesh.positions = <<>>
        /\ probe.mesh.normals = <<>>
        /\ probe.mesh.colors = <<>>
        /\ probe.mesh.uvs = <<>>
        /\ probe.mesh.indices = <<>>

\* The LOD mesher has just returned from an all-Air grid.
C21_Witness ==
    /\ probe.phase = "lod_meshed"
    /\ \A pos \in MeshCells : probe.voxels[pos] = "Air"
    /\ DOMAIN probe.mesh = {"quads", "positions", "normals", "colors", "uvs", "indices"}

\* C22: the LOD mesher emits, for every (x, z) column holding a non-Air voxel,
\* exactly one upward quad at the height of the topmost non-Air voxel of the
\* column, and nothing for the other columns.
C22_LodQuadPerColumn ==
    probe.phase = "lod_meshed" =>
        LET quads == probe.mesh.quads
            tops == {<<x, y, z>> \in MeshCells :
                        /\ probe.voxels[<<x, y, z>>] # "Air"
                        /\ \A higher \in (y + 1)..(MeshEdge - 1) :
                               probe.voxels[<<x, higher, z>>] = "Air"}
        IN  /\ {quads[j].pos : j \in 1..Len(quads)} = tops
            /\ Len(quads) = Cardinality(tops)
            /\ \A j \in 1..Len(quads) : quads[j].dir.normal = <<0, 1, 0>>
            /\ Len(quads) <= MeshEdge * MeshEdge

\* C29: every quad of a mesh, whatever its direction, has the indices
\* [i, i+1, i+2, i, i+2, i+3] for its base index i = 4k, and every index of
\* quad k lies in 4k..4k+3, below the vertex count.
C29_SameIndexPattern ==
    probe.phase \in {"meshed", "lod_meshed"} =>
        \A j \in 1..Len(probe.mesh.quads) :
            LET i == 4 * (j - 1)
            IN  /\ SubSeq(probe.mesh.indices, 6 * (j - 1) + 1, 6 * j)
                       = <<i, i + 1, i + 2, i, i + 2, i + 3>>
                /\ \A m \in (6 * (j - 1) + 1)..(6 * j) :
                       /\ probe.mesh.indices[m] \in i..(i + 3)
                       /\ probe.mesh.indices[m] < Len(probe.mesh.positions)

\* C25: the biome is the result of the first rule that matches, in the order
\* t>0.7 & r>0.7 -> 0, t>0.7 & r>0.3 -> 1, t>0.7 -> 3, t>0.4 & r>0.6 -> 0,
\* t>0.4 & r>0.3 -> 1, t>0.4 -> 3, t>0.2 & r>0.5 -> 2, t>0.2 -> 1, otherwise 2;
\* it is always one of 0..3, and no voxel of a generated column is Stone.
C25_BiomeFirstMatch ==
    probe.phase = "column_filled" =>
        LET t == probe.in.temp
            r == probe.in.rain
            rules == <<[hit |-> t > 7 /\ r > 7, biome |-> 0],
                       [hit |-> t > 7 /\ r > 3, biome |-> 1],
                       [hit |-> t > 7, biome |-> 3],
                       [hit |-> t > 4 /\ r > 6, biome |-> 0],
                       [hit |-> t > 4 /\ r > 3, biome |-> 1],
                       [hit |-> t > 4, biome |-> 3],
                       [hit |-> t > 2 /\ r > 5, biome |-> 2],
                       [hit |-> t > 2, biome |-> 1],
                       [hit |-> TRUE, biome |-> 2]>>
            first == CHOOSE k \in 1..9 : rules[k].hit /\ \A j \in 1..(k - 1) : ~rules[j].hit
        IN  /\ probe.biome = rules[first].biome
            /\ probe.biome \in 0..3
            /\ \A y \in 0..(CHUNK_SIZE - 1) : probe.voxels[y] # "Stone"

\* C25 witness: a column filled with the material of the biome of the first rule
\* that matches where a later rule matches too and gives another biome:
\* t = 0.7, r = 0.8 meets t > 0.4 & r > 0.6 -> 0 before t > 0.4 & r > 0.3 -> 1.
C25_Witness ==
    /\ probe.phase = "column_filled"
    /\ probe.in.temp = 7
    /\ probe.in.rain = 8
    /\ probe.biome = 0
    /\ \E y \in 0..(CHUNK_SIZE - 1) : probe.voxels[y] = "Forest"

\* C23: when the centre chunk is present, the camera height is derived from its
\* highest solid voxel: the scanned ground height of a column of chunk (0, 0, 0)
\* is the height of its topmost voxel that is not Air (0 for an empty column),
\* and the camera is placed 3 m above it.
C23_SpawnOnHighestSolid ==
    probe.phase = "scanned" =>
        LET ground == {y \in DOMAIN probe.voxels : probe.voxels[y] # "Air"}
            top == IF ground = {} THEN 0
                   ELSE CHOOSE y \in ground : \A other \in ground : other <= y
        IN  /\ probe.max_ground_y = top
            /\ probe.camera_y = top + SPAWN_CLEARANCE * VOXELS_PER_METER

\* C30: the state the streaming tick gives a chunk at insertion (from the
\* chunk-coordinate distance to the observer's chunk) is the state the LOD update
\* targets for that chunk with the observer where it is (from the distance between
\* the observer and the chunk centre).
C30_InsertionMatchesLodTarget ==
    (HasStore /\ last = "stream") =>
        \A pos \in DOMAIN Chunks \ DOMAIN before :
            LET band == LodBand(SumSq(camera_pos, ChunkCenter(pos)))
            IN  Chunks[pos].state =
                    CASE band = "active" -> "Active"
                      [] band = "lod" -> "LOD"
                      [] band = "unloaded" -> "Unloaded"
                      [] OTHER -> Chunks[pos].state

\* C24: visual sync and UI/debug reporting do not change the store's chunk data.
\* A step of update_chunk_entities_system leaves the key set and every entry's
\* state, grid and LOD mesh as they were (only the entity slot may differ), and so
\* would the unscheduled variant of systems.rs on any store; a step of
\* update_loading_screen or update_debug_text leaves the whole store unchanged.
C24_SameChunkData(old, new) ==
    /\ new.pos = old.pos
    /\ new.state = old.state
    /\ new.chunk = old.chunk
    /\ new.lod_mesh = old.lod_mesh

FrameDone ==
    /\ probe.phase = "frame"
    /\ probe.frame > 0
    /\ probe.pending = {}
    /\ fault = None

RanTimes(system) == Cardinality({reg \in probe.ran : reg.system = system})

\* C26: in the Playing state each tick runs the full pipeline on the store: the
\* streaming stage manage_chunk_loading is invoked once, in addition to the LOD
\* transition and the visual sync.
C26_StreamingEveryTick ==
    (FrameDone /\ game_state = "Playing") =>
        /\ RanTimes("manage_chunk_loading") = 1
        /\ RanTimes("update_chunk_lod_system") >= 1
        /\ RanTimes("update_chunk_entities_system") >= 1

\* C27: in each tick that finds the store, update_chunk_lod_system is applied to
\* it exactly once, not zero times and not twice.
C27_LodOncePerTick ==
    (FrameDone /\ HasStore /\ probe.commands = None) =>
        RanTimes("update_chunk_lod_system") = 1

\* C28: the game state leaves Loading for Playing only with the store published
\* and holding more than 98% of the (2 * radius + 1)^3 entries; the LOD update and
\* the visual sync that WorldPlugin registers run only in Playing; and Playing is
\* never left for Loading.
C28_PlayingAfterPublication ==
    [][/\ (game_state = "Loading" /\ game_state' = "Playing") =>
             /\ chunk_manager # None
             /\ 100 * Cardinality(DOMAIN chunk_manager[1].loaded_chunks) >
                    98 * (2 * chunk_manager[1].radius + 1)
                       * (2 * chunk_manager[1].radius + 1)
                       * (2 * chunk_manager[1].radius + 1)
       /\ (probe'.phase = "frame" /\ probe.phase = "frame") =>
             \A reg \in probe'.ran \ probe.ran :
                 (/\ reg.plugin = "WorldPlugin"
                  /\ reg.system \in {"update_chunk_lod_system",
                                     "update_chunk_entities_system"}) =>
                     game_state = "Playing" /\ chunk_manager # None
       /\ game_state = "Playing" => game_state' = "Playing"]_vars

\* C28 witness: a Playing frame in which WorldPlugin's LOD update and visual sync
\* have both run on the published store.
C28_Witness ==
    /\ FrameDone
    /\ game_state = "Playing"
    /\ HasStore
    /\ \E lod \in probe.ran :
           lod.plugin = "WorldPlugin" /\ lod.system = "update_chunk_lod_system"
    /\ \E sync \in probe.ran :
           sync.plugin = "WorldPlugin" /\ sync.system = "update_chunk_entities_system"

\* C38: in every reachable store state each entry's pos field is the key it is
\* stored under, whether the entry comes from the initial background load or from
\* the streaming tick, and load_chunks_around around the observer's chunk would
\* keep it so.
C38_PosIsKey ==
    HasStore =>
        /\ \A pos \in DOMAIN Chunks : Chunks[pos].pos = pos
        /\ LET filled == LoadChunksAround(Chunks, ObserverChunk, chunk_manager[1].radius,
                                          WorldGenResource)
           IN  \A pos \in DOMAIN filled : filled[pos].pos = pos

\* C38 witness: a streaming tick has created entries next to those of the initial
\* load, and load_chunks_around would still add some.
C38_Witness ==
    /\ HasStore
    /\ last = "stream"
    /\ DOMAIN Chunks \ DOMAIN before # {}
    /\ DOMAIN Chunks \cap DOMAIN before # {}
    /\ Cube(ObserverChunk, chunk_manager[1].radius) \ DOMAIN Chunks # {}

\* C36: the LOD update neither adds nor removes store keys, never touches an
\* entity slot, and leaves every entry farther than UNLOAD_RADIUS from the observer
\* as it was (state, grid and mesh).
C36_LodUpdateFrame ==
    (HasStore /\ last = "lod") =>
        /\ DOMAIN Chunks = DOMAIN before
        /\ \A pos \in DOMAIN Chunks :
              /\ Chunks[pos].entity = before[pos].entity
              /\ Chunks[pos].pos = before[pos].pos
              /\ CenterD2(pos) > (8 * 80) * (8 * 80) => Chunks[pos] = before[pos]

\* C36 witness: an LOD update that changed entries within the unload radius while
\* the store held an entry with an entity and an Active entry beyond the radius.
C36_Witness ==
    /\ HasStore
    /\ last = "lod"
    /\ \E pos \in DOMAIN Chunks : Chunks[pos] # before[pos]
    /\ \E pos \in DOMAIN Chunks : Chunks[pos].entity # None
    /\ \E pos \in DOMAIN Chunks :
           CenterD2(pos) > (8 * 80) * (8 * 80) /\ Chunks[pos].state = "Active"

\* C37: the LOD update is idempotent for a fixed observer position: on every
\* reachable store, a second application with the observer where it is leaves
\* every entry exactly as the first application leaves it.
C37_LodUpdateIdempotent ==
    HasStore =>
        \A pos \in DOMAIN Chunks :
            LET once == LodTransition(pos, Chunks[pos], camera_pos)
                twice == LodTransition(pos, once, camera_pos)
            IN  /\ twice.state = once.state
                /\ twice.chunk = once.chunk
                /\ twice.lod_mesh = once.lod_mesh
                /\ twice = once

\* C37 witness: update_chunk_lod_system has run on a store that an earlier run had
\* already brought to its target (LOD and Unloaded entries among the Active ones)
\* and has left it as it found it.
C37_Witness ==
    /\ HasStore
    /\ last = "lod"
    /\ Chunks = before
    /\ \E pos \in DOMAIN Chunks : Chunks[pos].state = "LOD"
    /\ \E pos \in DOMAIN Chunks : Chunks[pos].state = "Unloaded"
    /\ \E pos \in DOMAIN Chunks : Chunks[pos].state = "Active"

\* C34: within one streaming tick no coordinate is generated more than once: the
\* entries of the priority list are pairwise distinct, and the generations counted
\* against the budget are as many as the store entries the tick created.
C34_NoDuplicateGeneration ==
    (HasStore /\ last = "stream") =>
        /\ \A i, j \in 1..Len(tick.priority) :
              tick.priority[i] = tick.priority[j] => i = j
        /\ Len(tick.from_priority) + Len(tick.from_range) =
              Cardinality(DOMAIN Chunks \ DOMAIN before)

\* C35: the streaming tick neither replaces nor modifies an entry that was in the
\* store when the tick began and lies within UNLOAD_RADIUS of the observer's chunk:
\* the entry is still there with the same state, grid, LOD mesh and entity slot.
C35_TickKeepsEntries ==
    (HasStore /\ last = "stream") =>
        \A pos \in DOMAIN before :
            ChunkD2(pos) <= 80 * 80 =>
                /\ pos \in DOMAIN Chunks
                /\ Chunks[pos].state = before[pos].state
                /\ Chunks[pos].chunk = before[pos].chunk
                /\ Chunks[pos].lod_mesh = before[pos].lod_mesh
                /\ Chunks[pos].entity = before[pos].entity

\* C35 witness: a tick that created entries and evicted others, on a store whose
\* kept entries include one with an entity and one that is not Active.
C35_Witness ==
    /\ HasStore
    /\ last = "stream"
    /\ DOMAIN Chunks \ DOMAIN before # {}
    /\ DOMAIN before \ DOMAIN Chunks # {}
    /\ \E pos \in DOMAIN before \cap DOMAIN Chunks : before[pos].entity # None
    /\ \E pos \in DOMAIN before \cap DOMAIN Chunks : before[pos].state # "Active"

\* An entry with no geometry to show: Unloaded, Active without its grid, or LOD
\* without its LOD mesh.
NoGeometry(mc) ==
    \/ mc.state = "Unloaded"
    \/ mc.state = "Active" /\ mc.chunk = None
    \/ mc.state = "LOD" /\ mc.lod_mesh = None

\* C33: after visual sync no entry without resident geometry has a visual: its
\* entity slot is empty and the entity it had before is despawned; the sync of
\* systems.rs would empty the slot of such an entry as well.
C33_NoVisualWithoutGeometry ==
    /\ (HasStore /\ last = "sync") =>
          \A pos \in DOMAIN Chunks :
              NoGeometry(Chunks[pos]) =>
                  /\ Chunks[pos].entity = None
                  /\ before[pos].entity # None => before[pos].entity[1] \notin world_entities
    /\ HasStore =>
          \A pos \in DOMAIN Chunks :
              NoGeometry(Chunks[pos]) =>
                  SyncEntryUnculled(pos, Chunks[pos], world_entities).entity = None

\* C33 witness: a sync has emptied the slot of an entry that had an entity and has
\* lost its geometry since, next to a LOD entry that never had a mesh.
C33_Witness ==
    /\ HasStore
    /\ last = "sync"
    /\ \E pos \in DOMAIN Chunks :
           NoGeometry(Chunks[pos]) /\ before[pos].entity # None
    /\ \E pos \in DOMAIN Chunks : Chunks[pos].state = "LOD"

\* C32: after visual sync the visual of every entry that has an entity matches the
\* entry's current state: the fidelity recorded when the entity was spawned (full
\* mesh for Active, LOD mesh for LOD) is the entry's state.
C32_VisualMatchesState ==
    (HasStore /\ last = "sync") =>
        \A pos \in DOMAIN Chunks :
            Chunks[pos].entity # None =>
                Chunks[pos].entity[1].state = Chunks[pos].state

\* C31: no visual entity outlives its store entry: every chunk entity spawned and
\* not despawned is held by the entity slot of exactly one store entry.
C31_EntityHasOneEntry ==
    HasStore =>
        \A entity \in world_entities :
            Cardinality({pos \in DOMAIN Chunks : Chunks[pos].entity = Some(entity)}) = 1

====
